---- MODULE Spec2Model ----
(***************************************************************************)
(* Model of the Flask backend src/weather/app.py: the /api/forecast        *)
(* handler (get_forecast), its collaborators (get_location_from_ip,        *)
(* get_location_from_coordinates, fetch_forecast) and the daily            *)
(* aggregation process_forecast_data.                                      *)
(*                                                                         *)
(* Units.  Temperatures and wind speeds are held in hundredths (20.15 C is *)
(* 2015), rounded outputs in tenths (20.1 C is 201), probabilities of the  *)
(* classifier in 1/10000 (50.04 % is 5004) and rain_probability in tenths  *)
(* of a percent.  Timestamps are in hours, days are day numbers.           *)
(***************************************************************************)
EXTENDS Integers, Sequences, FiniteSets, TLC

\* ------------------------------------------------------------------ bounds
MaxReadings == 4          \* longest "list" handed to process_forecast_data
MaxDayReadings == 3       \* longest "list" mixing both samples
HandlerMaxReadings == 2   \* longest "list" a forecast fetch returns
Today == 10               \* day number of datetime.now().date()

\* --------------------------------------------------------------- constants
HoursPerDay == 24
FirstTarget == 1          \* range(1, 5)
LastTarget == 4

\* ------------------------------------------------------------ input values
\* Two provider samples.  20.15 is the double 20.149999999999998..., 18.4
\* is not a rounding tie.  For every sequence of at most six of these
\* temperatures (and of these wind speeds) the IEEE-754 result of
\* np.mean followed by numpy's round equals the exact-rational rule of
\* NpRound1 below.
SampleA == [hour |-> 9, temp |-> 2015, humidity |-> 80, pressure |-> 1005,
            clouds |-> 40, speed |-> 360, main |-> "Rain", icon |-> "10d"]
SampleB == [hour |-> 15, temp |-> 1840, humidity |-> 81, pressure |-> 1012,
            clouds |-> 41, speed |-> 412, main |-> "Clear", icon |-> "01d"]
Samples == {SampleA, SampleB}
Descriptions == {s.main : s \in Samples}
Dates == Today .. (Today + LastTarget + 1)

\* One entry of the provider's "list" (a RawReading), as the JSON object.
Reading(d, s) ==
    [dt |-> d * HoursPerDay + s.hour,
     main |-> [temp |-> s.temp, humidity |-> s.humidity, pressure |-> s.pressure],
     clouds |-> [all |-> s.clouds],
     wind |-> [speed |-> s.speed],
     weather |-> << [main |-> s.main, icon |-> s.icon] >>]

Readings == {Reading(d, s) : d \in Dates, s \in Samples}

\* Readings for the coverage cases (one sample on every date, today and
\* today+5 included) and for the per-day statistics (both samples on two
\* target dates).
CoverageReadings == {Reading(d, SampleA) : d \in Dates}
DayReadings == {Reading(d, s) : d \in {Today + 1, Today + 2}, s \in Samples}

Without(r, k) == [f \in (DOMAIN r) \ {k} |-> r[f]]

\* Readings that lack one of the fields the grouping loop subscripts.
MalformedReadings ==
    LET r == Reading(Today + 1, SampleA) IN
    { Without(r, "dt"),
      [r EXCEPT !.main = Without(r.main, "temp")],
      [r EXCEPT !.main = Without(r.main, "humidity")],
      [r EXCEPT !.main = Without(r.main, "pressure")],
      [r EXCEPT !.clouds = Without(r.clouds, "all")],
      [r EXCEPT !.wind = Without(r.wind, "speed")],
      [r EXCEPT !.weather = << >>] }

SeqsUpTo(S, n) == UNION {[1..k -> S] : k \in 0..n}

\* A forecast payload: None, or a JSON object with the given keys; "list"
\* is meaningful only when "list" \in keys.
Payload(isNone, keys, list) == [isNone |-> isNone, keys |-> keys, list |-> list]
NonePayload == Payload(TRUE, {}, << >>)
EmptyPayload == Payload(FALSE, {}, << >>)
NoListPayload == Payload(FALSE, {"cod", "message"}, << >>)
ListPayload(list) == Payload(FALSE, {"cod", "list"}, list)

WellFormedPayloads ==
    {ListPayload(l) : l \in SeqsUpTo(CoverageReadings, MaxReadings)
                            \cup SeqsUpTo(DayReadings, MaxDayReadings)}
MalformedPayloads ==
    {ListPayload(l) : l \in {q \in SeqsUpTo(Readings \cup MalformedReadings, 2) :
                               \E i \in 1..Len(q) : q[i] \in MalformedReadings}}
NullPayloads == {NonePayload, EmptyPayload, NoListPayload}

\* Outcomes of model.predict_proba(...)[0][1] (scikit-learn, not part of the
\* repository): the fitted classifier is opaque, so every day's probability
\* is drawn from these values, in 1/10000.
ProbaOutcomes == {1234, 5004, 5006}

\* Iteration orders of set(data["descriptions"]): string hashing is seeded
\* per process, so every order of the distinct labels can occur.
SetOrders ==
    {o \in [1..Cardinality(Descriptions) -> Descriptions] :
        \A i, j \in DOMAIN o : i # j => o[i] # o[j]}

\* ----------------------------------------------------------------- helpers
RECURSIVE SumSeq(_)
SumSeq(s) == IF s = << >> THEN 0 ELSE Head(s) + SumSeq(Tail(s))

MinSeq(s) == CHOOSE x \in {s[i] : i \in DOMAIN s} : \A i \in DOMAIN s : x <= s[i]
MaxSeq(s) == CHOOSE x \in {s[i] : i \in DOMAIN s} : \A i \in DOMAIN s : x >= s[i]

Count(s, x) == Cardinality({i \in DOMAIN s : s[i] = x})

\* -------------------------------------------------------------- arithmetic
\* Rounding ties k/100 (k mod 10 = 5) whose nearest double lies below the
\* decimal value; the other ties used here lie above it or are exact.
DoubleBelowTies == {15, 35, 1815, 1845, 2015, 2045, 2065}

HalfEven(t) == IF t % 2 = 0 THEN t ELSE t + 1

\* Python's builtin round(x, 1) of the float parsed from k/100, in tenths:
\* correctly rounded from the binary value of x.
PyRound1(k) ==
    LET t == k \div 10
        r == k % 10
    IN  IF r < 5 THEN t
        ELSE IF r > 5 THEN t + 1
        ELSE IF k % 25 = 0 THEN HalfEven(t)
        ELSE IF k \in DoubleBelowTies THEN t ELSE t + 1

\* round(np.float64, 1) of the mean sum/(100*n), in tenths: numpy scales by
\* ten, rounds half to even and divides again.
NpRound1(sum, n) ==
    LET t == sum \div (10 * n)
        r == sum % (10 * n)
    IN  IF 2 * r < 10 * n THEN t
        ELSE IF 2 * r > 10 * n THEN t + 1
        ELSE HalfEven(t)

\* int(np.mean(xs)) for non-negative integer readings: truncation.
IntOfMean(xs) == SumSeq(xs) \div Len(xs)

\* ------------------------------------------------------- rain classifier
\* predict_rain_probability: probability * 100 rounded to one decimal, for
\* the classifier output p (in 1/10000); the result is in tenths of a percent.
predict_rain_probability(p) == NpRound1(p, 1)

WillRainAtLeast(rain_prob) == rain_prob >= 500

\* bool(rain_prob > 50)
WillRain(rain_prob) == rain_prob > 500

\* ------------------------------------------------------------ aggregation
TruthyAlways(forecast_data) == TRUE

\* bool(forecast_data)
Truthy(forecast_data) == ~forecast_data.isNone /\ forecast_data.keys # {}

\* Every subscript of the grouping loop succeeds on this item.
WellFormed(item) ==
    /\ {"dt", "main", "clouds", "wind", "weather"} \subseteq DOMAIN item
    /\ {"temp", "humidity", "pressure"} \subseteq DOMAIN item.main
    /\ "all" \in DOMAIN item.clouds
    /\ "speed" \in DOMAIN item.wind
    /\ Len(item.weather) >= 1
    /\ {"main", "icon"} \subseteq DOMAIN item.weather[1]

\* datetime.fromtimestamp(item["dt"]).date()
DateOf(dt) == dt \div HoursPerDay

DayNames == <<"Thursday", "Friday", "Saturday", "Sunday", "Monday", "Tuesday", "Wednesday">>

\* target_date.strftime("%A")
Weekday(d) == DayNames[(d % 7) + 1]

\* daily_forecasts: date -> that date's readings in list order.
GroupByDate(list) ==
    [d \in {DateOf(list[i].dt) : i \in DOMAIN list} |->
        SelectSeq(list, LAMBDA item : DateOf(item.dt) = d)]

TargetDatesFromToday(today) ==
    [i \in 1..(LastTarget + 1) |-> today + i - 1]

\* today + timedelta(days=i) for i in range(1, 5), in loop order.
TargetDates(today) ==
    [i \in 1..(LastTarget - FirstTarget + 1) |-> today + FirstTarget + i - 1]

\* max(set(descriptions), key=descriptions.count): the first label, in the
\* set's iteration order, whose count is maximal.
ModeOf(descriptions, order) ==
    LET present == SelectSeq(order, LAMBDA x : Count(descriptions, x) > 0)
        best == CHOOSE i \in DOMAIN present :
                  /\ \A j \in DOMAIN present :
                        Count(descriptions, present[j]) <= Count(descriptions, present[i])
                  /\ \A j \in 1..(i - 1) :
                        Count(descriptions, present[j]) < Count(descriptions, present[i])
    IN  present[best]

\* The dictionary appended to result for one target date.
DailySummary(data, target_date, p, order) ==
    LET temps == [i \in DOMAIN data |-> data[i].main.temp]
        humidities == [i \in DOMAIN data |-> data[i].main.humidity]
        cloud_cover == [i \in DOMAIN data |-> data[i].clouds.all]
        wind_speeds == [i \in DOMAIN data |-> data[i].wind.speed]
        descriptions == [i \in DOMAIN data |-> data[i].weather[1].main]
        rain_prob == predict_rain_probability(p)
    IN  [date |-> target_date,
         day |-> Weekday(target_date),
         min_temp |-> PyRound1(MinSeq(temps)),
         max_temp |-> PyRound1(MaxSeq(temps)),
         avg_temp |-> NpRound1(SumSeq(temps), Len(temps)),
         humidity |-> IntOfMean(humidities),
         cloud_cover |-> IntOfMean(cloud_cover),
         wind_speed |-> NpRound1(SumSeq(wind_speeds), Len(wind_speeds)),
         condition |-> ModeOf(descriptions, order),
         icon |-> data[1].weather[1].icon,
         rain_probability |-> rain_prob,
         will_rain |-> WillRain(rain_prob)]

RECURSIVE SummariesFrom(_, _, _, _, _)
SummariesFrom(daily_forecasts, targets, i, proba, order) ==
    IF i > Len(targets) THEN << >>
    ELSE LET rest == SummariesFrom(daily_forecasts, targets, i + 1, proba, order)
         IN  IF targets[i] \in DOMAIN daily_forecasts
             THEN << DailySummary(daily_forecasts[targets[i]], targets[i],
                                  proba[targets[i]], order) >> \o rest
             ELSE rest

\* The target dates for which the classifier is invoked.
ClassifiedDates(forecast_data, today) ==
    IF Truthy(forecast_data) /\ "list" \in forecast_data.keys
       /\ \A i \in DOMAIN forecast_data.list : WellFormed(forecast_data.list[i])
    THEN {d \in DOMAIN GroupByDate(forecast_data.list) :
            \E i \in DOMAIN TargetDates(today) : TargetDates(today)[i] = d}
    ELSE {}

\* process_forecast_data: raised is TRUE when a subscript of the grouping
\* loop fails (KeyError / IndexError propagate, the function has no handler).
process_forecast_data(forecast_data, today, proba, order) ==
    IF ~Truthy(forecast_data) \/ "list" \notin forecast_data.keys
    THEN [raised |-> FALSE, value |-> << >>]
    ELSE IF \E i \in DOMAIN forecast_data.list : ~WellFormed(forecast_data.list[i])
    THEN [raised |-> TRUE, value |-> << >>]
    ELSE [raised |-> FALSE,
          value |-> SummariesFrom(GroupByDate(forecast_data.list),
                                  TargetDates(today), 1, proba, order)]

\* ------------------------------------------------------- request inputs
None == << >>
Some(x) == << x >>

\* request.args.get("lat", type=float): absent or unparseable gives None;
\* otherwise the value (here lat=51.5 and lng=-0.12, in hundredths).
LatArgs == {None, Some(5150)}
LngArgs == {None, Some(-12)}

\* What geocoder.ip("me") can produce: an exception, a falsy result, a
\* result without latlng, or a result with latlng and an optional city.
IpResults ==
    { [raises |-> TRUE,  ok |-> FALSE, latlng |-> None, city |-> "", country |-> ""],
      [raises |-> FALSE, ok |-> FALSE, latlng |-> None, city |-> "", country |-> ""],
      [raises |-> FALSE, ok |-> TRUE,  latlng |-> None, city |-> "", country |-> ""],
      [raises |-> FALSE, ok |-> TRUE,  latlng |-> Some(<<407, 740>>), city |-> "", country |-> ""],
      [raises |-> FALSE, ok |-> TRUE,  latlng |-> Some(<<407, 740>>), city |-> "New York", country |-> "US"] }

\* What geocoder.reverse_geocode(lat, lng) can produce.
ReverseResults ==
    { [raises |-> TRUE,  ok |-> FALSE, city |-> "", country |-> ""],
      [raises |-> FALSE, ok |-> FALSE, city |-> "", country |-> ""],
      [raises |-> FALSE, ok |-> TRUE,  city |-> "", country |-> ""],
      [raises |-> FALSE, ok |-> TRUE,  city |-> "London", country |-> "GB"] }

\* x or "Unknown"
OrUnknown(x) == IF x = "" THEN "Unknown" ELSE x

get_location_from_ip(g) ==
    IF g.raises THEN None
    ELSE IF g.ok /\ g.latlng # None
         THEN Some([city |-> OrUnknown(g.city), country |-> OrUnknown(g.country),
                    lat |-> g.latlng[1][1], lng |-> g.latlng[1][2]])
         ELSE None

get_location_from_coordinates(lat, lng, g) ==
    IF g.raises THEN None
    ELSE IF g.ok
         THEN Some([city |-> OrUnknown(g.city), country |-> OrUnknown(g.country),
                    lat |-> lat, lng |-> lng])
         ELSE None

\* What requests.get + raise_for_status + response.json() can produce: an
\* exception (transport error, non-2xx status, unparseable body) or the
\* parsed body.
HandlerPayloads ==
    NullPayloads \cup MalformedPayloads
      \cup {ListPayload(l) : l \in SeqsUpTo(Readings, HandlerMaxReadings)}

HttpResults ==
    { [raises |-> TRUE, why |-> w, json |-> NonePayload] :
          w \in {"transport", "status", "body"} }
      \cup { [raises |-> FALSE, why |-> "", json |-> j] : j \in HandlerPayloads }

\* fetch_forecast after its credential check: None on any exception.
fetch_forecast(http) == IF http.raises THEN NonePayload ELSE http.json

NoLocationNever(loc) == FALSE

\* `not location` at line 305.
NoLocation(loc) == loc = None

RequestsIssuedWithRetry(http) == IF http.raises THEN 2 ELSE 1

\* The requests.get calls one fetch_forecast issues (line 110, no retry).
RequestsIssued(http) == 1

\* jsonify(body), status
Response(status, body) == Some([status |-> status, body |-> body])

\* --------------------------------------------- CLI flow (weather_ai.py)
\* get_user_location: (city, lat, lng) or None.
get_user_location(g) ==
    IF g.raises THEN None
    ELSE IF g.ok /\ g.latlng # None
         THEN Some([city |-> IF g.city = "" THEN "Unknown City" ELSE g.city,
                    lat |-> g.latlng[1][1], lng |-> g.latlng[1][2]])
         ELSE None

\* A dictionary without keys.
EmptyDict == [k \in {} |-> 0]

\* The body of the current-weather endpoint for temperature t (hundredths)
\* and humidity h.
WeatherBody(t, h) ==
    [name |-> "London",
     sys |-> [country |-> "GB"],
     main |-> [temp |-> t, humidity |-> h, feels_like |-> t - 150, pressure |-> 1012],
     wind |-> [speed |-> 412],
     weather |-> << [description |-> "light rain"] >>]

WellFormedBodies ==
    LET named == {WeatherBody(t, h) : t \in {1840, 2250}, h \in {45, 80}}
    IN  named \cup {Without(b, "name") : b \in named}
              \cup {Without(b, "sys") : b \in named}

\* Bodies on which a subscript of extract_weather_info fails.
MalformedBodies ==
    LET b == WeatherBody(1840, 80) IN
    { Without(b, "main"),
      [b EXCEPT !.main = Without(b.main, "temp")],
      [b EXCEPT !.main = Without(b.main, "humidity")],
      [b EXCEPT !.main = Without(b.main, "feels_like")],
      [b EXCEPT !.main = Without(b.main, "pressure")],
      [b EXCEPT !.wind = Without(b.wind, "speed")],
      Without(b, "weather"),
      [b EXCEPT !.weather = << >>],
      [b EXCEPT !.weather = << EmptyDict >>],
      [b EXCEPT !.weather = << >>, !.main = Without(b.main, "pressure")],
      [b EXCEPT !.weather = << >>, !.main = Without(b.main, "temp")] }

\* What requests.get + raise_for_status + response.json() can produce for
\* the current-weather request.
WeatherHttpResults ==
    { [raises |-> TRUE, why |-> w, isNone |-> TRUE, body |-> EmptyDict] :
          w \in {"timeout", "connection", "status", "other"} }
      \cup { [raises |-> FALSE, why |-> "", isNone |-> n, body |-> EmptyDict] :
               n \in BOOLEAN }
      \cup { [raises |-> FALSE, why |-> "", isNone |-> FALSE, body |-> b] :
               b \in WellFormedBodies \cup MalformedBodies }

\* The value fetch_weather_data returns: None or the parsed body.
WeatherData(isNone, body) == [isNone |-> isNone, body |-> body]
NoWeatherData == WeatherData(TRUE, EmptyDict)

\* fetch_weather_data after its credential check: None on any exception.
fetch_weather_data(http) ==
    IF http.raises THEN NoWeatherData ELSE WeatherData(http.isNone, http.body)

WeatherRawTruthyAlways(w) == TRUE

\* bool(weather_raw) at line 294.
WeatherRawTruthy(w) == ~w.isNone /\ DOMAIN w.body # {}

\* str.title() of the provider's descriptions.
Title(d) == IF d = "light rain" THEN "Light Rain" ELSE "Clear Sky"

\* The first subscript of extract_weather_info's dictionary display that
\* fails on data, in evaluation order: "KeyError", "IndexError" or "none".
FirstFailure(data) ==
    IF "main" \notin DOMAIN data THEN "KeyError"
    ELSE IF "temp" \notin DOMAIN data.main THEN "KeyError"
    ELSE IF "humidity" \notin DOMAIN data.main THEN "KeyError"
    ELSE IF "wind" \notin DOMAIN data THEN "KeyError"
    ELSE IF "speed" \notin DOMAIN data.wind THEN "KeyError"
    ELSE IF "feels_like" \notin DOMAIN data.main THEN "KeyError"
    ELSE IF "weather" \notin DOMAIN data THEN "KeyError"
    ELSE IF Len(data.weather) = 0 THEN "IndexError"
    ELSE IF "description" \notin DOMAIN data.weather[1] THEN "KeyError"
    ELSE IF "pressure" \notin DOMAIN data.main THEN "KeyError"
    ELSE "none"

\* extract_weather_info: the record, {} on KeyError; any other exception
\* propagates (raised).  round(x, 2) is the identity on two-decimal values.
extract_weather_info(data) ==
    IF FirstFailure(data) = "KeyError" THEN [raised |-> FALSE, value |-> EmptyDict]
    ELSE IF FirstFailure(data) = "IndexError" THEN [raised |-> TRUE, value |-> EmptyDict]
    ELSE [raised |-> FALSE,
          value |-> [city |-> IF "name" \in DOMAIN data THEN data.name ELSE "Unknown",
                     country |-> IF "sys" \in DOMAIN data THEN data.sys.country ELSE "",
                     temperature |-> data.main.temp,
                     humidity |-> data.main.humidity,
                     wind_speed |-> data.wind.speed,
                     feels_like |-> data.main.feels_like,
                     description |-> Title(data.weather[1].description),
                     pressure |-> data.main.pressure]]

\* predict_feels_like on the model of train_prediction_model: the training
\* targets are exactly 0.9 * temp + 0.03 * humidity, which the least-squares
\* fit reproduces; in hundredths, for temperatures that are multiples of 0.1.
predict_feels_like(humidity, temperature) == (9 * temperature) \div 10 + 3 * humidity

\* ------------------------------------------------------------------- state
VARIABLES
    pc,             \* position of the call / request being handled
    API_KEY,        \* TRUE when OPENWEATHER_API_KEY is configured
    lat, lng,       \* the parsed query parameters
    location,       \* get_forecast's local
    forecast_data,  \* the payload fetched / under aggregation
    result,         \* the list process_forecast_data returned
    raised,         \* TRUE when process_forecast_data raised
    response,       \* the (body, status) pair returned by get_forecast
    ip_calls,       \* geocoder.ip calls issued
    reverse_calls,  \* geocoder.reverse_geocode calls issued
    forecast_gets,  \* requests.get calls issued to FORECAST_URL
    location_data,  \* main's local: what get_user_location returned
    weather_raw,    \* main's local: what fetch_weather_data returned
    weather_info,   \* main's local: what extract_weather_info returned
    ai_prediction,  \* main's local: what predict_feels_like returned
    weather_gets,   \* requests.get calls issued to OPENWEATHER_URL
    stages,         \* the stages of main entered so far, in order
    displayed       \* TRUE once display_weather_summary printed the report

cliVars == <<location_data, weather_raw, weather_info, ai_prediction,
             weather_gets, stages, displayed>>

webVars == <<lat, lng, location, forecast_data, result, raised, response,
             ip_calls, reverse_calls, forecast_gets>>

vars == <<pc, API_KEY, webVars, cliVars>>

\* main's locals before main runs.
CliIdle ==
    /\ location_data = None
    /\ weather_raw = NoWeatherData
    /\ weather_info = EmptyDict
    /\ ai_prediction = 0
    /\ weather_gets = 0
    /\ stages = << >>
    /\ displayed = FALSE

\* ------------------------------------------------- GET /api/forecast
Init ==
    /\ pc = "resolve"
    /\ API_KEY \in BOOLEAN
    /\ lat \in LatArgs
    /\ lng \in LngArgs
    /\ location = None
    /\ forecast_data = NonePayload
    /\ result = << >>
    /\ raised = FALSE
    /\ response = None
    /\ ip_calls = 0
    /\ reverse_calls = 0
    /\ forecast_gets = 0
    /\ CliIdle

\* Lines 300-308: location resolution.
ResolveLocation ==
    /\ pc = "resolve"
    /\ IF lat = None \/ lng = None
       THEN \E g \in IpResults :
              /\ ip_calls' = ip_calls + 1
              /\ location' = get_location_from_ip(g)
              /\ IF NoLocation(location')
                 THEN /\ response' = Response(400, [error |-> "Could not detect location"])
                      /\ pc' = "done"
                 ELSE /\ response' = response
                      /\ pc' = "check_key"
              /\ UNCHANGED reverse_calls
       ELSE \E g \in ReverseResults :
              /\ reverse_calls' = reverse_calls + 1
              /\ location' = get_location_from_coordinates(lat[1], lng[1], g)
              /\ pc' = "check_key"
              /\ UNCHANGED <<response, ip_calls>>
    /\ UNCHANGED <<API_KEY, lat, lng, forecast_data, result, raised, forecast_gets>>
    /\ UNCHANGED cliVars

CheckKeyAfterLocationTest ==
    /\ pc = "check_key"
    /\ IF location = None
       THEN /\ response' = Response(400, [error |-> "Could not detect location"])
            /\ pc' = "done"
       ELSE IF ~API_KEY
       THEN /\ response' = Response(500, [error |-> "API key not configured"])
            /\ pc' = "done"
       ELSE /\ response' = response
            /\ pc' = "fetch"
    /\ UNCHANGED <<API_KEY, lat, lng, location, forecast_data, result, raised,
                   ip_calls, reverse_calls, forecast_gets>>
    /\ UNCHANGED cliVars

\* Lines 310-311: credential check.
CheckKey ==
    /\ pc = "check_key"
    /\ IF ~API_KEY
       THEN /\ response' = Response(500, [error |-> "API key not configured"])
            /\ pc' = "done"
       ELSE /\ response' = response
            /\ pc' = "fetch"
    /\ UNCHANGED <<API_KEY, lat, lng, location, forecast_data, result, raised,
                   ip_calls, reverse_calls, forecast_gets>>
    /\ UNCHANGED cliVars

\* Lines 314-316: location["lat"] raises TypeError on None (caught at line
\* 328); otherwise fetch_forecast runs, which returns None without a request
\* when the credential is absent.
FetchForecast ==
    /\ pc = "fetch"
    /\ IF location = None
       THEN /\ response' = Response(500, [error |-> "TypeError", success |-> FALSE])
            /\ pc' = "done"
            /\ UNCHANGED <<forecast_data, forecast_gets>>
       ELSE IF ~API_KEY
       THEN /\ forecast_data' = NonePayload
            /\ response' = Response(500, [error |-> "Could not fetch forecast"])
            /\ pc' = "done"
            /\ UNCHANGED forecast_gets
       ELSE \E http \in HttpResults :
              /\ forecast_gets' = forecast_gets + RequestsIssued(http)
              /\ forecast_data' = fetch_forecast(http)
              /\ IF ~Truthy(forecast_data')
                 THEN /\ response' = Response(500, [error |-> "Could not fetch forecast"])
                      /\ pc' = "done"
                 ELSE /\ response' = response
                      /\ pc' = "process"
    /\ UNCHANGED <<API_KEY, lat, lng, location, result, raised, ip_calls, reverse_calls>>
    /\ UNCHANGED cliVars

\* Lines 319-329: aggregation and the 200 response; an exception out of
\* process_forecast_data is caught at line 328.
ProcessForecast ==
    /\ pc = "process"
    /\ \E order \in SetOrders :
       \E proba \in [ClassifiedDates(forecast_data, Today) -> ProbaOutcomes] :
          LET out == process_forecast_data(forecast_data, Today, proba, order)
          IN  /\ result' = out.value
              /\ raised' = out.raised
              /\ response' =
                   IF out.raised
                   THEN Response(500, [error |-> "KeyError", success |-> FALSE])
                   ELSE Response(200, [success |-> TRUE, location |-> location[1],
                                       forecast |-> out.value, timestamp |-> "now"])
    /\ pc' = "done"
    /\ UNCHANGED <<API_KEY, lat, lng, location, forecast_data, ip_calls,
                   reverse_calls, forecast_gets>>
    /\ UNCHANGED cliVars

Next == ResolveLocation \/ CheckKey \/ FetchForecast \/ ProcessForecast

Spec == Init /\ [][Next]_vars

\* ---------------------------------------- process_forecast_data, by itself
AggInit ==
    /\ pc = "agg_call"
    /\ forecast_data \in NullPayloads \cup MalformedPayloads \cup WellFormedPayloads
    /\ result = << >>
    /\ raised = FALSE
    /\ API_KEY = TRUE
    /\ lat = None
    /\ lng = None
    /\ location = None
    /\ response = None
    /\ ip_calls = 0
    /\ reverse_calls = 0
    /\ forecast_gets = 0
    /\ CliIdle

AggCall ==
    /\ pc = "agg_call"
    /\ \E order \in SetOrders :
       \E proba \in [ClassifiedDates(forecast_data, Today) -> ProbaOutcomes] :
          LET out == process_forecast_data(forecast_data, Today, proba, order)
          IN  /\ result' = out.value
              /\ raised' = out.raised
    /\ pc' = "agg_done"
    /\ UNCHANGED <<API_KEY, lat, lng, location, forecast_data, response,
                   ip_calls, reverse_calls, forecast_gets>>
    /\ UNCHANGED cliVars

AggNext == AggCall

AggSpec == AggInit /\ [][AggNext]_vars

\* ------------------------------------------------ main() of weather_ai.py
\* pc is the stage main is about to enter; "cli_exit" is a return of main,
\* "cli_fatal" an exception that left main (reported by the caller).
CliInit ==
    /\ pc = "cli_location"
    /\ API_KEY \in BOOLEAN
    /\ lat = None
    /\ lng = None
    /\ location = None
    /\ forecast_data = NonePayload
    /\ result = << >>
    /\ raised = FALSE
    /\ response = None
    /\ ip_calls = 0
    /\ reverse_calls = 0
    /\ forecast_gets = 0
    /\ CliIdle

\* Lines 285-290: step 1, location detection.
CliGetLocation ==
    /\ pc = "cli_location"
    /\ stages' = Append(stages, "location")
    /\ \E g \in IpResults :
          /\ location_data' = get_user_location(g)
          /\ pc' = IF location_data' = None THEN "cli_exit" ELSE "cli_fetch"
    /\ UNCHANGED <<API_KEY, webVars, weather_raw, weather_info, ai_prediction,
                   weather_gets, displayed>>

\* Lines 293-296: step 2, weather fetch; fetch_weather_data returns None
\* without a request when the credential is absent.
CliFetchWeather ==
    /\ pc = "cli_fetch"
    /\ stages' = Append(stages, "fetch")
    /\ IF ~API_KEY
       THEN /\ weather_raw' = NoWeatherData
            /\ UNCHANGED weather_gets
       ELSE \E http \in WeatherHttpResults :
              /\ weather_gets' = weather_gets + 1
              /\ weather_raw' = fetch_weather_data(http)
    /\ pc' = IF WeatherRawTruthy(weather_raw') THEN "cli_extract" ELSE "cli_exit"
    /\ UNCHANGED <<API_KEY, webVars, location_data, weather_info, ai_prediction,
                   displayed>>

\* Line 299: step 3, field extraction.
CliExtract ==
    /\ pc = "cli_extract"
    /\ stages' = Append(stages, "extract")
    /\ LET out == extract_weather_info(weather_raw.body)
       IN  /\ weather_info' = out.value
           /\ pc' = IF out.raised THEN "cli_fatal" ELSE "cli_train"
    /\ UNCHANGED <<API_KEY, webVars, location_data, weather_raw, ai_prediction,
                   weather_gets, displayed>>

\* Line 302: step 4, model training.
CliTrain ==
    /\ pc = "cli_train"
    /\ stages' = Append(stages, "train")
    /\ pc' = "cli_predict"
    /\ UNCHANGED <<API_KEY, webVars, location_data, weather_raw, weather_info,
                   ai_prediction, weather_gets, displayed>>

\* Lines 305-309: step 5, prediction; weather_info["humidity"] raises
\* KeyError on the empty record before predict_feels_like is called.
CliPredict ==
    /\ pc = "cli_predict"
    /\ IF {"humidity", "temperature"} \subseteq DOMAIN weather_info
       THEN /\ stages' = Append(stages, "predict")
            /\ ai_prediction' = predict_feels_like(weather_info.humidity,
                                                   weather_info.temperature)
            /\ pc' = "cli_display"
       ELSE /\ pc' = "cli_fatal"
            /\ UNCHANGED <<stages, ai_prediction>>
    /\ UNCHANGED <<API_KEY, webVars, location_data, weather_raw, weather_info,
                   weather_gets, displayed>>

\* Line 312: step 6, display_weather_summary, which prints nothing for an
\* empty record.
CliDisplay ==
    /\ pc = "cli_display"
    /\ stages' = Append(stages, "display")
    /\ displayed' = (DOMAIN weather_info # {})
    /\ pc' = "cli_exit"
    /\ UNCHANGED <<API_KEY, webVars, location_data, weather_raw, weather_info,
                   ai_prediction, weather_gets>>

CliNext ==
    CliGetLocation \/ CliFetchWeather \/ CliExtract \/ CliTrain \/ CliPredict
      \/ CliDisplay

CliSpec == CliInit /\ [][CliNext]_vars

\* ================================================================= claims
\* The payload is a JSON object with a "list" of well-formed readings.
HasWellFormedList ==
    /\ Truthy(forecast_data)
    /\ "list" \in forecast_data.keys
    /\ \A i \in DOMAIN forecast_data.list : WellFormed(forecast_data.list[i])

\* The readings of the payload dated d, in reading order.
ReadingsOn(d) ==
    SelectSeq(forecast_data.list, LAMBDA item : item.dt \div HoursPerDay = d)

\* The dates today+1 .. today+4 that have at least one reading.
CoveredTargets ==
    {d \in (Today + 1)..(Today + 4) : ReadingsOn(d) # << >>}

\* C1: for a payload with a "list" of well-formed readings,
\* process_forecast_data returns exactly one summary for each date of
\* today+1..today+4 that has a reading and nothing else, in strictly
\* ascending date order; uncovered target dates are omitted, today and
\* today+5 never appear, and four covered dates give four summaries.
C1_OneSummaryPerCoveredTarget ==
    (pc = "agg_done" /\ HasWellFormedList) =>
        /\ ~raised
        /\ {result[i].date : i \in DOMAIN result} = CoveredTargets
        /\ Len(result) = Cardinality(CoveredTargets)
        /\ \A i, j \in DOMAIN result : i < j => result[i].date < result[j].date
        /\ \A i \in DOMAIN result :
              result[i].date # Today /\ result[i].date < Today + 5
        /\ (CoveredTargets = (Today + 1)..(Today + 4) => Len(result) = 4)

\* Four target dates covered by readings that arrive out of date order.
C1_Witness ==
    /\ pc = "agg_done"
    /\ HasWellFormedList
    /\ Len(result) = 4
    /\ Len(forecast_data.list) = 4
    /\ forecast_data.list[1].dt > forecast_data.list[4].dt

\* The label of maximal count that appears first in reading order.
FirstEncounteredMode(descs) ==
    LET i == CHOOSE k \in DOMAIN descs :
               /\ \A j \in DOMAIN descs : Count(descs, descs[j]) <= Count(descs, descs[k])
               /\ \A j \in 1..(k - 1) : Count(descs, descs[j]) < Count(descs, descs[k])
    IN  descs[i]

DescriptionsOn(d) ==
    [i \in DOMAIN ReadingsOn(d) |-> ReadingsOn(d)[i].weather[1].main]

\* C2: every emitted summary's condition is the most frequent description
\* of its date, and among descriptions sharing the maximum count the one
\* encountered first in reading order.
C2_ConditionIsFirstEncounteredMode ==
    (pc = "agg_done" /\ HasWellFormedList /\ ~raised) =>
        \A k \in DOMAIN result :
            result[k].condition = FirstEncounteredMode(DescriptionsOn(result[k].date))

\* The request carried no usable coordinate pair.
NoCoordinates == lat = None \/ lng = None

ErrorOnly(r) == "error" \in DOMAIN r.body /\ "forecast" \notin DOMAIN r.body

\* C3: without both lat and lng, when IP geolocation yields no location,
\* the response is 400 with an "error" key and no "forecast" key, whether
\* or not the credential is configured, and no forecast fetch is issued.
C3_IpFailureIs400 ==
    (NoCoordinates /\ pc # "resolve" /\ location = None) =>
        /\ pc = "done"
        /\ response # None
        /\ response[1].status = 400
        /\ ErrorOnly(response[1])
        /\ forecast_gets = 0

\* IP detection failed on a server that has its credential configured.
C3_Witness ==
    /\ NoCoordinates
    /\ API_KEY
    /\ ip_calls = 1
    /\ location = None
    /\ pc = "done"
    /\ response[1].status = 400

\* C4: with lat and lng supplied, a failed reverse-geocoding lookup gives
\* HTTP 400, never 500.
C4_ReverseFailureIs400 ==
    (~NoCoordinates /\ pc = "done" /\ location = None) =>
        /\ response # None
        /\ response[1].status = 400

\* fetch_forecast was called and returned None.
FetchReturnedNone == forecast_gets > 0 /\ forecast_data = NonePayload

\* C5: with a resolved location, a missing credential or a fetch that
\* returns None gives HTTP 500 with an "error" key and no "forecast" key,
\* and the missing credential is reported before any forecast fetch.
C5_FetchFailureIs500 ==
    (pc = "done" /\ location # None /\ (~API_KEY \/ FetchReturnedNone)) =>
        /\ response # None
        /\ response[1].status = 500
        /\ ErrorOnly(response[1])
        /\ (~API_KEY => forecast_gets = 0)

\* The forecast request failed for a resolved location.
C5_Witness ==
    /\ pc = "done"
    /\ location # None
    /\ API_KEY
    /\ FetchReturnedNone
    /\ response[1].status = 500

\* C6: process_forecast_data returns the empty sequence without raising
\* for a None or empty payload, a payload without "list", and a payload
\* whose "list" holds a reading that lacks a required field.
C6_MalformedGivesEmpty ==
    (pc = "agg_done" /\ ~HasWellFormedList) => (~raised /\ result = << >>)

\* C7: in every emitted summary min_temp <= avg_temp <= max_temp, and for
\* a date with exactly one reading the three values are equal.
C7_MinAvgMax ==
    (pc = "agg_done" /\ HasWellFormedList /\ ~raised) =>
        \A k \in DOMAIN result :
            /\ result[k].min_temp <= result[k].avg_temp
            /\ result[k].avg_temp <= result[k].max_temp
            /\ (Len(ReadingsOn(result[k].date)) = 1 =>
                    /\ result[k].min_temp = result[k].avg_temp
                    /\ result[k].avg_temp = result[k].max_temp)

\* C8: in every emitted summary will_rain is true exactly when
\* rain_probability is strictly greater than 50; exactly 50.0 gives false.
C8_WillRainIffAbove50 ==
    (pc = "agg_done" /\ ~raised) =>
        \A k \in DOMAIN result :
            /\ result[k].will_rain <=> result[k].rain_probability > 500
            /\ (result[k].rain_probability = 500 => ~result[k].will_rain)

\* Summaries on both sides of the boundary: exactly 50.0 and 50.1.
C8_Witness ==
    /\ pc = "agg_done"
    /\ \E k \in DOMAIN result :
          result[k].rain_probability = 500 /\ ~result[k].will_rain
    /\ \E k \in DOMAIN result :
          result[k].rain_probability = 501 /\ result[k].will_rain

\* The mean of xs rounded to the nearest integer (halves upwards).
NearestOfMean(xs) == (2 * SumSeq(xs) + Len(xs)) \div (2 * Len(xs))

\* C9: humidity and cloud_cover of every emitted summary are the means of
\* the date's readings rounded to the nearest integer (80, 81 gives 81).
C9_HumidityRoundedToNearest ==
    (pc = "agg_done" /\ HasWellFormedList /\ ~raised) =>
        \A k \in DOMAIN result :
            LET rs == ReadingsOn(result[k].date) IN
            /\ result[k].humidity = NearestOfMean([i \in DOMAIN rs |-> rs[i].main.humidity])
            /\ result[k].cloud_cover = NearestOfMean([i \in DOMAIN rs |-> rs[i].clouds.all])

\* C10: one request issues at most one geolocation call (IP lookup or
\* reverse geocode, never both) and at most one forecast GET, and no
\* forecast GET when the credential is absent or location resolution failed.
C10_AtMostOneCallEach ==
    /\ ip_calls + reverse_calls <= 1
    /\ forecast_gets <= 1
    /\ ((~API_KEY \/ (pc # "resolve" /\ location = None)) => forecast_gets = 0)

\* A request whose single forecast GET failed: one of each call, no retry.
C10_Witness ==
    /\ pc = "done"
    /\ reverse_calls = 1
    /\ ip_calls = 0
    /\ forecast_gets = 1
    /\ forecast_data = NonePayload
    /\ response[1].status = 500

\* C11: every 200 response has success = true, a location carrying lat and
\* lng and a forecast of 0 to 4 summaries, and is produced only after
\* location resolution, the credential check and the forecast fetch have
\* succeeded; every other response (400 or 500) has an "error" key and no
\* "forecast" key.
C11_ResponseShape ==
    response # None =>
        LET r == response[1] IN
        /\ r.status \in {200, 400, 500}
        /\ (r.status = 200 =>
              /\ {"success", "location", "forecast"} \subseteq DOMAIN r.body
              /\ r.body.success = TRUE
              /\ location # None
              /\ r.body.location = location[1]
              /\ {"lat", "lng"} \subseteq DOMAIN r.body.location
              /\ Len(r.body.forecast) \in 0..4
              /\ ip_calls + reverse_calls = 1
              /\ API_KEY
              /\ forecast_gets = 1
              /\ ~forecast_data.isNone
              /\ forecast_data.keys # {})
        /\ (r.status # 200 => ErrorOnly(r))

\* A 200 response carrying two daily summaries for supplied coordinates.
C11_Witness ==
    /\ pc = "done"
    /\ response # None
    /\ response[1].status = 200
    /\ reverse_calls = 1
    /\ Len(response[1].body.forecast) = 2

\* C12: the checks run in the order location resolution, credential,
\* forecast fetch, aggregation: a failed IP detection answers 400 even when
\* the credential is missing too, a missing credential answers 500 'API key
\* not configured' even when the supplied coordinates could not be
\* reverse-geocoded, no fetch happens before both earlier checks, and
\* aggregation happens only after the fetch.
C12_CheckOrder ==
    /\ (pc = "done" /\ NoCoordinates /\ location = None /\ ~API_KEY) =>
           response[1].status = 400
    /\ (pc = "done" /\ ~API_KEY /\ ~(NoCoordinates /\ location = None)) =>
           /\ response[1].status = 500
           /\ response[1].body.error = "API key not configured"
    /\ (pc \in {"check_key", "fetch", "process"} => ip_calls + reverse_calls = 1)
    /\ (pc \in {"fetch", "process"} => API_KEY)
    /\ (forecast_gets > 0 => (API_KEY /\ ip_calls + reverse_calls = 1))
    /\ ((pc = "process" \/ result # << >> \/ raised) => forecast_gets = 1)

\* The credential is missing and the supplied coordinates could not be
\* reverse-geocoded: the answer is the credential error.
C12_Witness ==
    /\ pc = "done"
    /\ ~NoCoordinates
    /\ reverse_calls = 1
    /\ location = None
    /\ ~API_KEY
    /\ response[1].status = 500
    /\ response[1].body.error = "API key not configured"

\* The stages of main in program order.
StageOrder == <<"location", "fetch", "extract", "train", "predict", "display">>

IsPrefix(s, t) == Len(s) <= Len(t) /\ \A i \in DOMAIN s : s[i] = t[i]

Entered(stage) == \E i \in DOMAIN stages : stages[i] = stage

\* C13: main runs location detection, weather fetch, field extraction,
\* model training, prediction and display strictly in this order; the
\* report is displayed only if location detection and weather fetch
\* returned a value and extraction returned a non-empty record; a location
\* failure stops before any weather fetch, a fetch failure stops before
\* training, and an empty extraction never reaches display_weather_summary.
C13_CliStageOrder ==
    /\ IsPrefix(stages, StageOrder)
    /\ (displayed =>
          /\ stages = StageOrder
          /\ location_data # None
          /\ ~weather_raw.isNone
          /\ DOMAIN weather_raw.body # {}
          /\ DOMAIN weather_info # {})
    /\ ((Entered("location") /\ location_data = None) =>
          (~Entered("fetch") /\ weather_gets = 0))
    /\ ((Entered("fetch") /\ (weather_raw.isNone \/ DOMAIN weather_raw.body = {})) =>
          (~Entered("extract") /\ ~Entered("train")))
    /\ ((Entered("extract") /\ DOMAIN weather_info = {}) =>
          (~Entered("display") /\ ~displayed))

\* An extraction that returned the empty record: main went on to train the
\* model and then left through the KeyError of weather_info["humidity"].
C13_Witness ==
    /\ pc = "cli_fatal"
    /\ Entered("train")
    /\ ~weather_raw.isNone
    /\ "main" \in DOMAIN weather_raw.body
    /\ DOMAIN weather_info = {}
    /\ ~displayed

====
